---- MODULE Spec2Model ----
(***************************************************************************)
(* Swipe-card deck of script.js: card supply (fetchNewCat, createCard,     *)
(* loadNewCards), the drag handlers (startDrag, onDrag, endDrag), the      *)
(* decision handler (handleChoice) and the transitionend listener it       *)
(* registers.  Every event handler runs to completion (one JS task), so    *)
(* each is one action; the only suspension point is the awaited fetch.     *)
(***************************************************************************)
EXTENDS Integers, Sequences, FiniteSets, TLC

\* ---------------------------------------------------------------- bounds
\* Gesture starts, releases and button clicks that change the program state,
\* explored per run (moves are not counted).
MaxEvents == 2

\* Page coordinates the pointer events carry.
Coords == {0, 100, 250}

\* ------------------------------------------------------------- constants
NULL == 0
\* The <p> element that fetchNewCat writes into the deck on failure.
ERR == -1
decisionThreshold == 100
innerWidth == 400
InitialCount == 2

\* A pointer event: a MouseEvent carries pageX itself, a TouchEvent carries
\* it in touches[0] / changedTouches[0] and has no pageX of its own.
Events == [kind : {"mouse", "touch"}, pageX : Coords]

DocEvents == {"mousemove", "touchmove", "mouseup", "touchend"}

VARIABLES
    currentCard,   \* script.js:10, NULL or a card
    startX,        \* script.js:11
    isDragging,    \* script.js:12
    deck,          \* children of .swipe-deck, first child first
    cards,         \* every card element created so far, by identity
    docListeners,  \* event types with onDrag/endDrag registered on document
    calls,         \* the loadNewCards invocations, in the order started; req
                   \* (requests issued) and res (outcome per slot: the card
                   \* made, or NULL) are history
    loaded,        \* DOMContentLoaded has been handled
    nRequests,     \* history: fetch() calls made
    nDecisions,    \* history: handleChoice calls that passed the guard
    lastChoice,    \* history: the choice of the latest Decision
    dragCard,      \* history: currentCard when startDrag last opened a session
    nEvents        \* history: starts, releases and clicks that changed the state

vars == <<currentCard, startX, isDragging, deck, cards, docListeners, calls,
          loaded, nRequests, nDecisions, lastChoice, dragCard, nEvents>>

\* ------------------------------------------------------------- helpers
Abs(x) == IF x < 0 THEN -x ELSE x

RECURSIVE Gcd(_, _)
Gcd(a, b) == IF b = 0 THEN a ELSE Gcd(b, a % b)

\* The JS number n / d, kept exact as a reduced fraction <<num, den>>.
Ratio(n, d) == LET g == Gcd(Abs(n), d) IN <<n \div g, d \div g>>

Zero == Ratio(0, 1)

RECURSIVE Reverse(_)
Reverse(s) == IF s = <<>> THEN <<>> ELSE Append(Reverse(Tail(s)), Head(s))

Without(s, x) == SelectSeq(s, LAMBDA y : y # x)

InDeck(d, c) == \E i \in DOMAIN d : d[i] = c

\* The program state as one record, so that handlers compose as in the code.
State == [currentCard |-> currentCard, startX |-> startX,
          isDragging |-> isDragging, deck |-> deck, cards |-> cards,
          docListeners |-> docListeners, calls |-> calls, loaded |-> loaded,
          nRequests |-> nRequests, nDecisions |-> nDecisions,
          lastChoice |-> lastChoice, dragCard |-> dragCard]

Becomes(s) ==
    /\ currentCard' = s.currentCard
    /\ startX' = s.startX
    /\ isDragging' = s.isDragging
    /\ deck' = s.deck
    /\ cards' = s.cards
    /\ docListeners' = s.docListeners
    /\ calls' = s.calls
    /\ loaded' = s.loaded
    /\ nRequests' = s.nRequests
    /\ nDecisions' = s.nDecisions
    /\ lastChoice' = s.lastChoice
    /\ dragCard' = s.dragCard

\* A handler whose runs are not counted.
SystemEvent(s) == \E t \in {s} : Becomes(t) /\ nEvents' = nEvents

\* --------------------------------------------------------- card supply
\* A card element as createCard leaves it: no inline transform, transition
\* or overlay opacity (<<>> is the unset inline style), no transitionend
\* listener, no transform transition running.
NewCard == [transform |-> <<>>, transition |-> "", like |-> <<>>,
            nope |-> <<>>, listener |-> FALSE, anim |-> FALSE]

\* Variant of InsertFirst: the card is always appended (appendChild).
InsertFirst_Append(d, c) == Append(d, c)

\* swipeDeck.insertBefore(card, firstChild), or appendChild on an empty deck.
InsertFirst(d, c) == IF d # <<>> THEN <<c>> \o d ELSE Append(d, c)

\* createCard(catData): build the element, put it first, make it current.
createCard(s) ==
    LET card == Len(s.cards) + 1 IN
    [s EXCEPT !.cards = Append(@, NewCard),
              !.deck = InsertFirst(@, card),
              !.currentCard = card]

\* fetchNewCat up to its await: the request of call k goes out.
fetchIssue(s, k) == [s EXCEPT !.nRequests = @ + 1, !.calls[k].req = @ + 1]

\* Variant of fetchNewCat: the error paragraph is added to the deck's
\* content (innerHTML +=) instead of replacing it.
fetchNewCat_AddsError(s, ok) ==
    IF ok THEN s ELSE [s EXCEPT !.deck = Append(@, ERR)]

\* fetchNewCat after its await: a record (ok) is returned untouched; a
\* transport error or non-ok status is caught, the deck's content becomes
\* the error paragraph, and null is returned.
fetchNewCat(s, ok) == IF ok THEN s ELSE [s EXCEPT !.deck = <<ERR>>]

\* Variant of loadNewCards: all count requests go out at once
\* (Promise.all over the slots) instead of one per loop iteration.
loadNewCards_Parallel(s, count) ==
    LET c == [count |-> count, i |-> 0,
              pc |-> IF 0 < count THEN "fetch" ELSE "done",
              req |-> count, res |-> <<>>]
    IN [s EXCEPT !.calls = Append(@, c), !.nRequests = @ + count]

\* loadNewCards(count) up to its first await.
loadNewCards(s, count) ==
    LET c == [count |-> count, i |-> 0,
              pc |-> IF 0 < count THEN "fetch" ELSE "done",
              req |-> 0, res |-> <<>>]
        s1 == [s EXCEPT !.calls = Append(@, c)]
    IN IF 0 < count THEN fetchIssue(s1, Len(s1.calls)) ELSE s1

\* Variant of loopNext: a null result ends the batch (break / rethrow).
loopNext_StopsOnFailure(s, k) ==
    LET i1 == s.calls[k].i + 1
        failed == s.calls[k].res[Len(s.calls[k].res)] = NULL
    IN IF i1 < s.calls[k].count /\ ~failed
       THEN fetchIssue([s EXCEPT !.calls[k].i = i1], k)
       ELSE [s EXCEPT !.calls[k].i = i1, !.calls[k].pc = "done"]

\* The loop's i++ and test, and the next iteration up to its await.
loopNext(s, k) ==
    LET i1 == s.calls[k].i + 1 IN
    IF i1 < s.calls[k].count
    THEN fetchIssue([s EXCEPT !.calls[k].i = i1], k)
    ELSE [s EXCEPT !.calls[k].i = i1, !.calls[k].pc = "done"]

\* loadNewCards resumed by the outcome of its pending fetch.
loadNewCardsResume(s, k, ok) ==
    LET s1 == fetchNewCat(s, ok)
        s2 == IF ok THEN createCard(s1) ELSE s1
        made == IF ok THEN Len(s2.cards) ELSE NULL
        s3 == [s2 EXCEPT !.calls[k].res = Append(@, made)]
    IN loopNext(s3, k)

Pending(k) == k \in DOMAIN calls /\ calls[k].pc = "fetch"

\* DOMContentLoaded: loadNewCards(2).
PageLoad ==
    /\ ~loaded
    /\ SystemEvent(loadNewCards([State EXCEPT !.loaded = TRUE], InitialCount))

FetchSucceed(k) ==
    /\ Pending(k)
    /\ SystemEvent(loadNewCardsResume(State, k, TRUE))

FetchFail(k) ==
    /\ Pending(k)
    /\ SystemEvent(loadNewCardsResume(State, k, FALSE))

\* ---------------------------------------------------- decision handler
\* Variant of handleChoice: the replacement is loaded two at a time, like
\* the initial load.
handleChoice_LoadsTwo(s, choice) ==
    IF s.currentCard = NULL THEN s
    ELSE
      LET c == s.currentCard
          flyOutX == (IF choice = "like" THEN 1 ELSE -1) * innerWidth
          s1 == [s EXCEPT
                   !.cards[c].transform = <<flyOutX, Ratio(flyOutX, 20)>>,
                   !.cards[c].listener = TRUE,
                   !.cards[c].anim = InDeck(s.deck, c)
                                     /\ s.cards[c].transition # "none",
                   !.currentCard = NULL,
                   !.nDecisions = @ + 1,
                   !.lastChoice = choice]
      IN loadNewCards(s1, 2)

\* Variant of handleChoice: the card is dismissed but no replacement is
\* requested.
handleChoice_NoReload(s, choice) ==
    IF s.currentCard = NULL THEN s
    ELSE
      LET c == s.currentCard
          flyOutX == (IF choice = "like" THEN 1 ELSE -1) * innerWidth
      IN [s EXCEPT
            !.cards[c].transform = <<flyOutX, Ratio(flyOutX, 20)>>,
            !.cards[c].listener = TRUE,
            !.cards[c].anim = InDeck(s.deck, c)
                              /\ s.cards[c].transition # "none",
            !.currentCard = NULL,
            !.nDecisions = @ + 1,
            !.lastChoice = choice]

\* handleChoice(choice): fly the current card out, register the
\* transitionend listener on it, clear currentCard, loadNewCards(1).  The
\* fly-out runs as a transition only on an attached card whose inline
\* transition is not 'none'.
handleChoice(s, choice) ==
    IF s.currentCard = NULL THEN s
    ELSE
      LET c == s.currentCard
          flyOutX == (IF choice = "like" THEN 1 ELSE -1) * innerWidth
          s1 == [s EXCEPT
                   !.cards[c].transform = <<flyOutX, Ratio(flyOutX, 20)>>,
                   !.cards[c].listener = TRUE,
                   !.cards[c].anim = InDeck(s.deck, c)
                                     /\ s.cards[c].transition # "none",
                   !.currentCard = NULL,
                   !.nDecisions = @ + 1,
                   !.lastChoice = choice]
      IN loadNewCards(s1, 1)

\* The listener handleChoice registers: () => { currentCard.remove(); }.
\* It reads the global when it runs: with currentCard null it throws a
\* TypeError and removes nothing, otherwise it detaches the current card.
transitionendListener(s) ==
    IF s.currentCard = NULL THEN s
    ELSE [s EXCEPT !.deck = Without(@, s.currentCard)]

\* ------------------------------------------------- gesture interpreter
\* `e.pageX || e.touches[0].pageX` (and changedTouches in endDrag): a
\* MouseEvent whose pageX is 0 falls through to e.touches, which a
\* MouseEvent does not have, and the handler stops with a TypeError.
PageXThrows(e) == e.kind = "mouse" /\ e.pageX = 0

\* startDrag(e)
startDrag(s, e) ==
    IF s.currentCard = NULL THEN s
    ELSE
      LET s1 == [s EXCEPT !.isDragging = TRUE, !.dragCard = s.currentCard] IN
      IF PageXThrows(e) THEN s1
      ELSE [s1 EXCEPT !.startX = e.pageX,
                      !.cards[s.currentCard].transition = "none",
                      !.docListeners = @ \cup DocEvents]

\* Variant of onDrag: the guard tests currentCard only, not isDragging.
onDrag_NoDraggingGuard(s, e) ==
    IF s.currentCard = NULL THEN s
    ELSE IF PageXThrows(e) THEN s
    ELSE
      LET c == s.currentCard
          deltaX == e.pageX - s.startX
          opacity == Ratio(Abs(deltaX), decisionThreshold)
      IN [s EXCEPT
            !.cards[c].like = IF deltaX > 0 THEN opacity ELSE Zero,
            !.cards[c].nope = IF deltaX > 0 THEN Zero ELSE opacity,
            !.cards[c].transform = <<deltaX, Ratio(deltaX, 20)>>]

\* onDrag(e)
onDrag(s, e) ==
    IF ~s.isDragging \/ s.currentCard = NULL THEN s
    ELSE IF PageXThrows(e) THEN s
    ELSE
      LET c == s.currentCard
          deltaX == e.pageX - s.startX
          opacity == Ratio(Abs(deltaX), decisionThreshold)
      IN [s EXCEPT
            !.cards[c].like = IF deltaX > 0 THEN opacity ELSE Zero,
            !.cards[c].nope = IF deltaX > 0 THEN Zero ELSE opacity,
            !.cards[c].transform = <<deltaX, Ratio(deltaX, 20)>>]

\* endDrag(e)
endDrag(s, e) ==
    IF ~s.isDragging \/ s.currentCard = NULL THEN s
    ELSE
      LET s1 == [s EXCEPT !.isDragging = FALSE] IN
      IF PageXThrows(e) THEN s1
      ELSE
        LET c == s.currentCard
            deltaX == e.pageX - s.startX
            s2 == [s1 EXCEPT !.cards[c].transition = "ease"]
            s3 == IF Abs(deltaX) > decisionThreshold
                  THEN handleChoice(s2, IF deltaX > 0 THEN "like" ELSE "nope")
                  ELSE [s2 EXCEPT !.cards[c].transform = <<>>,
                                  !.cards[c].like = Zero,
                                  !.cards[c].nope = Zero]
        IN [s3 EXCEPT !.docListeners = @ \ DocEvents]

\* ---------------------------------------------------------------- events
Attached == {c \in DOMAIN cards : InDeck(deck, c)}

\* A gesture start, release or click whose handler takes the state to s.
\* Model bound: at most MaxEvents of them change anything.
UserEvent(s) ==
    \E t \in {s} :
        /\ Becomes(t)
        /\ IF t = State
           THEN nEvents' = nEvents
           ELSE nEvents < MaxEvents /\ nEvents' = nEvents + 1

\* mousedown / touchstart on a card of the deck (every card carries the
\* startDrag listener).
StartDrag(t, e) ==
    /\ t \in Attached
    /\ UserEvent(startDrag(State, e))

\* mousemove / touchmove on the document, while onDrag is registered.
OnDrag(e) ==
    /\ (IF e.kind = "mouse" THEN "mousemove" ELSE "touchmove") \in docListeners
    /\ SystemEvent(onDrag(State, e))

\* mouseup / touchend on the document, while endDrag is registered.
EndDrag(e) ==
    /\ (IF e.kind = "mouse" THEN "mouseup" ELSE "touchend") \in docListeners
    /\ UserEvent(endDrag(State, e))

\* click on #like / #nope.
Click(choice) == UserEvent(handleChoice(State, choice))

\* transitionend on a dismissed card whose fly-out transition finished.
TransitionEnd(c) ==
    /\ c \in Attached
    /\ cards[c].listener /\ cards[c].anim
    /\ SystemEvent(transitionendListener([State EXCEPT !.cards[c].anim = FALSE]))

\* ----------------------------------------------------------- specification
Init ==
    /\ currentCard = NULL
    /\ startX = 0
    /\ isDragging = FALSE
    /\ deck = <<>>
    /\ cards = <<>>
    /\ docListeners = {}
    /\ calls = <<>>
    /\ loaded = FALSE
    /\ nRequests = 0
    /\ nDecisions = 0
    /\ lastChoice = ""
    /\ dragCard = NULL
    /\ nEvents = 0

Next ==
    \/ PageLoad
    \/ \E k \in DOMAIN calls : FetchSucceed(k)
    \/ \E k \in DOMAIN calls : FetchFail(k)
    \/ \E t \in DOMAIN cards, e \in Events : StartDrag(t, e)
    \/ \E e \in Events : OnDrag(e)
    \/ \E e \in Events : EndDrag(e)
    \/ \E choice \in {"like", "nope"} : Click(choice)
    \/ \E c \in DOMAIN cards : TransitionEnd(c)

Spec == Init /\ [][Next]_vars

\* ------------------------------------------------------------ properties
Dismissed == {c \in DOMAIN cards : cards[c].listener}

NoFailure ==
    \A k \in DOMAIN calls : \A i \in DOMAIN calls[k].res : calls[k].res[i] # NULL

\* Successful fetches of the first k loadNewCards calls.
RECURSIVE Successes(_)
Successes(k) ==
    IF k = 0 THEN 0
    ELSE Len(SelectSeq(calls[k].res, LAMBDA r : r # NULL)) + Successes(k - 1)

\* Card slots of the first k loadNewCards calls not yet resolved.
RECURSIVE OpenSlots(_)
OpenSlots(k) ==
    IF k = 0 THEN 0
    ELSE (calls[k].count - Len(calls[k].res)) + OpenSlots(k - 1)

\* C1: when transitionend is delivered to a dismissed card, the card that
\* leaves the deck is that card and no other.
C1_RemovesTheDismissedCard ==
    [][\A c \in DOMAIN cards : TransitionEnd(c) => deck' = Without(deck, c)]_vars

\* C2: once the page has loaded, and as long as no fetch has failed, the
\* undismissed cards in the deck plus the slots still to be materialized
\* number exactly two.
C2_TwoCardsInPlay ==
    (loaded /\ NoFailure) =>
        Cardinality(Attached \ Dismissed) + OpenSlots(Len(calls)) = 2

\* C3: every Decision issues exactly one request and dismisses exactly one
\* card; besides the (at most two) requests of the initial load no request
\* is issued, so requests never exceed 2 + Decisions; every request fills
\* one slot, failed or not, so none is retried.
C3_OneRequestPerDecision ==
    LET initial == IF loaded THEN calls[1].req ELSE 0 IN
    /\ initial <= InitialCount
    /\ nRequests = initial + nDecisions
    /\ nRequests <= InitialCount + nDecisions
    /\ Cardinality(Dismissed) = nDecisions
    /\ Len(calls) = (IF loaded THEN 1 ELSE 0) + nDecisions
    /\ \A k \in DOMAIN calls :
          /\ k > 1 => calls[k].req = 1
          /\ calls[k].req = Len(calls[k].res)
                            + (IF calls[k].pc = "fetch" THEN 1 ELSE 0)

\* A Decision was taken, its replacement fetch failed, and nothing is
\* outstanding.
C3_Witness ==
    /\ nDecisions >= 1
    /\ \E k \in DOMAIN calls : k > 1 /\ calls[k].res = <<NULL>>
    /\ \A k \in DOMAIN calls : calls[k].pc = "done"

\* C4: the release event of an open drag session leaves none of the
\* onDrag / endDrag listeners registered on the document.
C4_ReleaseRemovesListeners ==
    [][\A e \in Events :
         (isDragging /\ EndDrag(e)) => docListeners' \cap DocEvents = {}]_vars

\* C5: a release with |releaseX - startX| <= 100 leaves the dragged card
\* with a neutral transform, both overlays at 0 and its transition
\* re-enabled, and produces no Decision.
C5_IndecisiveReleaseSnapsBack ==
    [][\A e \in Events :
         (isDragging /\ EndDrag(e)
            /\ Abs(e.pageX - startX) <= decisionThreshold) =>
              /\ cards'[dragCard].transform = <<>>
              /\ cards'[dragCard].like = Zero
              /\ cards'[dragCard].nope = Zero
              /\ cards'[dragCard].transition = "ease"
              /\ nDecisions' = nDecisions]_vars

\* C6: a release with deltaX = releaseX - startX is liked exactly when
\* deltaX > 100, noped exactly when deltaX < -100, and produces no Decision
\* exactly when -100 <= deltaX <= 100.
C6_ReleaseClassification ==
    [][\A e \in Events :
         (isDragging /\ EndDrag(e)) =>
            LET deltaX == e.pageX - startX
                decided == nDecisions' = nDecisions + 1
            IN /\ (decided /\ lastChoice' = "like") <=> deltaX > decisionThreshold
               /\ (decided /\ lastChoice' = "nope") <=> deltaX < -decisionThreshold
               /\ (nDecisions' = nDecisions) <=>
                     (-decisionThreshold <= deltaX /\ deltaX <= decisionThreshold)]_vars

\* C7: whenever the dragging flag is set, the active card is non-null and is
\* the card that was active when the session's gesture start was handled.
C7_SessionKeepsItsCard ==
    isDragging => (currentCard # NULL /\ currentCard = dragCard)

\* C8: a failed fetch leaves the deck holding the error message alone: one
\* error paragraph and no card, whatever the deck held before.
C8_FailureReplacesDeck ==
    [][\A k \in DOMAIN calls : FetchFail(k) => deck' = <<ERR>>]_vars

\* The second fetch of the initial load failed with the first card in the
\* deck: the deck now holds the error message only.
C8_Witness ==
    /\ loaded /\ nDecisions = 0
    /\ calls[1].res = <<1, NULL>>
    /\ deck = <<ERR>>

\* C9: a failed fetch yields no card and does not end the batch: a call
\* issues one request per slot, a finished call has issued exactly count
\* requests, and there is exactly one card per successful request.
C9_FailureSkipsOneSlot ==
    /\ \A k \in DOMAIN calls :
          /\ calls[k].req <= calls[k].count
          /\ calls[k].i = Len(calls[k].res)
          /\ calls[k].pc = "done" <=> calls[k].i = calls[k].count
          /\ calls[k].pc = "done" => calls[k].req = calls[k].count
          /\ calls[k].pc = "fetch" => calls[k].req = calls[k].i + 1
    /\ Len(cards) = Successes(Len(calls))
    /\ \A k \in DOMAIN calls : \A i \in DOMAIN calls[k].res :
          calls[k].res[i] # NULL =>
             /\ calls[k].res[i] \in DOMAIN cards
             /\ \A j \in DOMAIN calls : \A h \in DOMAIN calls[j].res :
                   calls[j].res[h] = calls[k].res[i] => (j = k /\ h = i)

\* The initial load finished after its first fetch failed: the second slot
\* was still requested and materialized.
C9_Witness ==
    /\ loaded
    /\ calls[1].pc = "done"
    /\ calls[1].res = <<NULL, 1>>
    /\ calls[1].req = 2

\* C10: with every fetch successful and no user event, the deck is the
\* cards of supplyCards(count) in reverse order of arrival, count of them
\* once the call is done, and the last-fetched card is first and active;
\* and in every context a materialized card goes in before all cards
\* present and becomes the active card.
C10_NewestFirst ==
    /\ [](  (loaded /\ nEvents = 0 /\ NoFailure) =>
              /\ deck = Reverse(calls[1].res)
              /\ calls[1].res # <<>> =>
                    /\ currentCard = Head(deck)
                    /\ currentCard = calls[1].res[Len(calls[1].res)]
              /\ calls[1].pc = "done" => Len(deck) = calls[1].count)
    /\ [][\A k \in DOMAIN calls :
            FetchSucceed(k) =>
               /\ deck' = <<Len(cards')>> \o deck
               /\ Len(cards') = Len(cards) + 1
               /\ currentCard' = Len(cards')]_vars

\* The initial load is done, both fetches succeeded, no user event: the
\* second card is first in the deck and active.
C10_Witness ==
    /\ loaded /\ nEvents = 0 /\ NoFailure
    /\ calls[1].pc = "done"
    /\ deck = <<2, 1>>
    /\ currentCard = 2

RECURSIVE Resolved(_)
\* Slots of the first k loadNewCards calls whose fetch has resolved.
Resolved(k) == IF k = 0 THEN 0 ELSE Len(calls[k].res) + Resolved(k - 1)

\* C11: within one loadNewCards call the requests are serialized: at most
\* one request of the call is unresolved, a request goes out only when all
\* earlier slots have resolved, and every successful slot has its card
\* materialized by then; so the two fetches of the initial load are never
\* in flight together.
C11_SerializedWithinCall ==
    \A k \in DOMAIN calls :
        /\ calls[k].req - Len(calls[k].res) \in {0, 1}
        /\ calls[k].req - Len(calls[k].res) = 1 <=> calls[k].pc = "fetch"
        /\ \A i \in DOMAIN calls[k].res :
              calls[k].res[i] # NULL => calls[k].res[i] \in DOMAIN cards

\* The second request of the initial load is in flight, after the first
\* resolved to a card that is in the deck.
C11_Witness ==
    /\ loaded
    /\ calls[1].req = 2 /\ calls[1].res = <<1>> /\ calls[1].pc = "fetch"
    /\ InDeck(deck, 1)

\* C12: once a card has been materialized, whenever the deck holds an
\* undismissed card the active-card reference designates one of them.
C12_SomeCardActive ==
    (Attached \ Dismissed # {}) => currentCard \in (Attached \ Dismissed)

\* C13: with the dragging flag false, a move event (onDrag) and a release
\* event (endDrag) leave the whole state unchanged.
C13_IdleMoveAndReleaseIgnored ==
    ~isDragging =>
        \A e \in Events : onDrag(State, e) = State /\ endDrag(State, e) = State

\* No session is open, yet a card is active, the document listeners are
\* still registered and the card carries a drag's styling: a move or release
\* is delivered and would act but for the guard.
C13_Witness ==
    /\ ~isDragging
    /\ currentCard # NULL
    /\ docListeners = DocEvents
    /\ cards[currentCard].transition = "none"

\* The transition a card with no inline transition takes from the style
\* sheet: the one that animates the fly-out of a card dismissed by button.
SheetTransition == "ease"

\* The transition in effect on card c in state s.
Transition(s, c) ==
    IF s.cards[c].transition = "" THEN SheetTransition
    ELSE s.cards[c].transition

\* States a and b agree on what a Decision on card c leaves behind.
SameOutcome(a, b, c) ==
    /\ a.cards[c].transform = b.cards[c].transform
    /\ Transition(a, c) = Transition(b, c)
    /\ a.currentCard = NULL /\ b.currentCard = NULL
    /\ a.isDragging = b.isDragging
    /\ a.nRequests = b.nRequests

\* C14: from a state with an active card and no open session, the like
\* button and a drag released with deltaX > 100 (the nope button and
\* deltaX < -100) leave the same fly-out transform, transition, cleared
\* active-card reference, dragging flag and number of requests.
C14_ButtonAndDragAgree ==
    (currentCard # NULL /\ ~isDragging) =>
        \A down, up \in Events :
            LET deltaX == up.pageX - down.pageX
                dragged == endDrag(startDrag(State, down), up)
            IN /\ (~PageXThrows(down) /\ deltaX > decisionThreshold) =>
                      SameOutcome(handleChoice(State, "like"), dragged,
                                  currentCard)
               /\ (~PageXThrows(down) /\ deltaX < -decisionThreshold) =>
                      SameOutcome(handleChoice(State, "nope"), dragged,
                                  currentCard)

\* C15: a non-null active-card reference designates a card that is in the
\* deck and has not been dismissed.
C15_ActiveCardInDeck ==
    currentCard # NULL => currentCard \in (Attached \ Dismissed)

\* C16: a gesture start delivered to a card that is not the active card
\* opens no session and changes no card's transform, transition or
\* overlays.
C16_OnlyActiveCardStartsDrag ==
    [][\A t \in DOMAIN cards : \A e \in Events :
          (StartDrag(t, e) /\ t # currentCard) =>
              /\ isDragging' = isDragging
              /\ \A c \in DOMAIN cards :
                    /\ cards'[c].transform = cards[c].transform
                    /\ cards'[c].transition = cards[c].transition
                    /\ cards'[c].like = cards[c].like
                    /\ cards'[c].nope = cards[c].nope]_vars

\* Requests issued and not yet resolved, over all loadNewCards calls.
InFlight == nRequests - Resolved(Len(calls))

\* C17 (as claimed): at any time at most one fetch request is in flight.
C17_OneFetchInFlight == InFlight <= 1

\* C17 (amended): at most one request is in flight per loadNewCards call:
\* one for the initial load while it runs, plus one per Decision whose
\* replacement has not resolved; so never more than 1 + Decisions.
C17_OneFetchInFlightPerCall ==
    /\ InFlight = Cardinality({k \in DOMAIN calls : calls[k].pc = "fetch"})
    /\ InFlight <=
          (IF loaded /\ calls[1].pc = "fetch" THEN 1 ELSE 0)
          + Cardinality({k \in DOMAIN calls : k > 1 /\ calls[k].res = <<>>})
    /\ InFlight <= 1 + nDecisions

\* A Decision was taken during the initial load: its replacement request
\* and the initial load's second request are in flight together.
C17_Witness ==
    /\ InFlight = 2
    /\ nDecisions = 1
    /\ calls[1].pc = "fetch" /\ calls[2].pc = "fetch"

NonZero(o) == o # <<>> /\ o # Zero

\* C18: a move event of an open session, deltaX = currentX - startX, sets
\* the active card's transform to translate deltaX, rotate deltaX / 20, and
\* its overlays to like = |deltaX| / 100, nope = 0 when deltaX > 0 and to
\* nope = |deltaX| / 100, like = 0 otherwise, unclamped; and no card has
\* both overlays non-zero.
C18_MoveTracksPointer ==
    /\ (isDragging /\ currentCard # NULL) =>
          \A e \in Events :
              (IF e.kind = "mouse" THEN "mousemove" ELSE "touchmove")
                  \in docListeners =>
                LET deltaX == e.pageX - startX
                    moved == onDrag(State, e).cards[currentCard]
                    opacity == Ratio(Abs(deltaX), decisionThreshold)
                IN /\ moved.transform = <<deltaX, Ratio(deltaX, 20)>>
                   /\ deltaX > 0 => (moved.like = opacity /\ moved.nope = Zero)
                   /\ deltaX <= 0 => (moved.nope = opacity /\ moved.like = Zero)
    /\ \A c \in DOMAIN cards : ~(NonZero(cards[c].like) /\ NonZero(cards[c].nope))

\* C19: whenever no session is open, no card in the deck has its
\* transition set to 'none'.
C19_TransitionOffOnlyWhileDragging ==
    ~isDragging => \A c \in Attached : cards[c].transition # "none"

\* ---------------------------------------------------------------- liveness
\* Every pending fetch eventually resolves, one way or the other.
FetchResolves == \E k \in DOMAIN calls : FetchSucceed(k) \/ FetchFail(k)

FairSpec == Spec /\ WF_vars(FetchResolves)

\* The replacement of the n-th Decision (call n + 1) has resolved, to a card
\* that is in the deck and active or to the error message in the deck.
Replaced(n) ==
    /\ n + 1 \in DOMAIN calls
    /\ Len(calls[n + 1].res) = 1
    /\ \/ /\ calls[n + 1].res[1] # NULL
          /\ currentCard = calls[n + 1].res[1]
          /\ deck # <<>> /\ Head(deck) = currentCard
       \/ /\ calls[n + 1].res[1] = NULL
          /\ deck = <<ERR>>

\* The n-th Decision has been taken and its replacement has not resolved.
Awaited(n) ==
    /\ nDecisions >= n
    /\ ~(n + 1 \in DOMAIN calls /\ Len(calls[n + 1].res) = 1)

\* C20: under fair fetch completion every Decision is eventually followed
\* by its replacement card being active or by the error message; a Decision
\* clears the active card, only a materialized card sets it again, and
\* while it is null button presses and gesture starts change nothing and
\* issue no request.
C20_DecisionIsAnswered ==
    /\ \A n \in 1..(MaxEvents + 1) : Awaited(n) ~> Replaced(n)
    /\ [](currentCard = NULL =>
            /\ \A choice \in {"like", "nope"} : handleChoice(State, choice) = State
            /\ \A e \in Events : startDrag(State, e) = State)
    /\ [][/\ nDecisions' # nDecisions => currentCard' = NULL
          /\ (currentCard = NULL /\ currentCard' # NULL) =>
                (Len(cards') = Len(cards) + 1 /\ currentCard' = Len(cards'))]_vars

\* The replacement of the first Decision has arrived and is the active card.
C20_Witness ==
    /\ nDecisions >= 1
    /\ Replaced(1)
    /\ calls[2].res[1] # NULL

====
